---- MODULE Spec2Model ----
(***************************************************************************)
(* Model of highfinesse-lsa-server: the driver callback of LSA             *)
(* (wlm_data.py), the bridge from the driver thread onto the asyncio event *)
(* loop and the dispatcher meas_cb (server.py), and the per-channel        *)
(* SampleChunker (sample_chunker.py).                                      *)
(*                                                                         *)
(* Every handler that runs on the event loop (a ready callback, a timer    *)
(* callback, the synchronous part of an RPC coroutine) runs to completion  *)
(* without interleaving, so each is one action.  The driver thread only    *)
(* runs LSA._callback_ex.                                                  *)
(***************************************************************************)
EXTENDS Integers, Sequences, FiniteSets, TLC

(* ------------------------------ bounds -------------------------------- *)

\* SampleChunker.target_bin_size; the server passes 256 (server.py:104).
target_bin_size == 2
\* Number of callback invocations (bridge submissions) explored.
MaxEvents == 4
\* Number of asyncio.Future objects created by get_new that are explored.
MaxFutures == 2
\* Number of distinct TimerHandle identities per channel.
MaxTimers == 3
\* How far below its maxsize the exporter's queue is explored.
MaxBacklogGap == 2
\* Number of add_callback/remove_callback calls explored.
MaxEdits == 3
\* Number of measurement events whose dispatch is followed step by step.
MaxDispatches == 2

(* ------------------------------ values -------------------------------- *)

\* Python values that reach the chunker: None, a C long, a C double.
None == [t |-> "None", n |-> 0]
Long(n) == [t |-> "long", n |-> n]
Double(n) == [t |-> "double", n |-> n]


\* float(x): a double of the same numeric value.
float(x) == [t |-> "double", n |-> x.n]

\* Python truth value of `not x` for None and numbers.
Falsy(x) == x.t = "None" \/ x.n = 0

(* --------------------------- wlm_data.py ------------------------------ *)

\* class MeasurementType: the members the model keeps (one double-valued,
\* one long-valued).
MeasurementType == {"temperature", "exposure_time_1"}

DOUBLE_MEASUREMENT_TYPES == {"temperature"}

is_double_measurement(meas_type) == meas_type \in DOUBLE_MEASUREMENT_TYPES

\* self._device_version.
device_version == "ver_a"

\* The calls <<ver, mode, intval, dblval, res1>> the driver makes: a double
\* of 0.0 or 1.0 beside a long of 1 for the measurements, every other mode
\* once, and a foreign device version with three of the modes.
DriverCalls ==
    {<<"ver_a", "temperature", 1, 0, 0>>, <<"ver_a", "temperature", 1, 1, 1>>,
     <<"ver_a", "exposure_time_1", 1, 0, 0>>,
     <<"ver_a", "cmiStartCalibration", 0, 0, 0>>,
     <<"ver_a", "cmiEndCalibration", 0, 0, 0>>,
     <<"ver_a", "cmiOther", 1, 1, 0>>,
     <<"ver_b", "temperature", 1, 1, 0>>,
     <<"ver_b", "cmiStartCalibration", 0, 0, 0>>,
     <<"ver_b", "cmiEndCalibration", 0, 0, 0>>}

(* ----------------------------- server.py ------------------------------ *)

\* Keys of the `channels` dict after the reg_chan calls.
channels == {"temperature", "exposure_time_1"}

\* A measurement kind no channel is registered for, and all the kinds the
\* bridge is handed.
UnregisteredKinds == {"unregistered_xyz"}
Kinds == MeasurementType \cup UnregisteredKinds

\* Places of the two threads: the driver thread is outside _callback_ex
\* ("idle"), at `with self._result_callbacks_lock` ("acquire") or in the
\* loop over the callbacks ("iterate") with list iterator index i; at_begin
\* is the list as it was when the lock was taken, called the callbacks
\* invoked for the event so far, n the events dispatched.  The client
\* thread is outside ("idle"), at the `with` ("acquire") or inside it
\* ("locked"); n counts its calls.
DriverIdle ==
    [pc |-> "idle", i |-> 0, meas_type |-> "", meas_value |-> None,
     at_begin |-> <<>>, called |-> <<>>, n |-> 0]
UserIdle == [pc |-> "idle", op |-> "", cb |-> "", n |-> 0, exc |-> ""]

\* Number of bridge submissions so far.
RECURSIVE SumLen(_, _)
SumLen(f, S) ==
    IF S = {} THEN 0
    ELSE LET k == CHOOSE x \in S : TRUE IN Len(f[k]) + SumLen(f, S \ {k})

VARIABLES
    points,               \* [channel -> Seq]      SampleChunker._points
    last_point,           \* [channel -> value]    SampleChunker._last_point
    waiting_for_values,   \* [channel -> Seq(id)]  SampleChunker._waiting_for_values
    timeout,              \* [channel -> handle]   SampleChunker._timeout
    scheduled,            \* [channel -> SUBSET handle] live TimerHandles of the loop
    futures,              \* Seq of [chan, result]: the Futures made by get_new
    ready,                \* loop._ready: callbacks queued by call_soon_threadsafe
    calibration_active,   \* LSA._calibration_active
    result_callbacks,     \* LSA._result_callbacks
    submitted,            \* history: [kind -> Seq] the meas_value handed to the bridge
    pushed,               \* history: [channel -> Seq] values passed to push
    bins,                 \* history: [channel -> Seq(Seq)] arguments of bin_finished
    lastOp,               \* history: the event-loop handler that ran last, its outcome
    log,                  \* history: the calls that handler made, in order
    delivered,            \* [channel -> [alias, data]] the list object last passed
                          \* to bin_finished: whether _points still names it, and
                          \* what it holds now
    exporter,             \* whether main() made an InfluxDBExporter (server.py:92-96)
    queue,                \* InfluxDBExporter._queue
    callbacks_lock,       \* LSA._result_callbacks_lock: the threads holding it
    driver,               \* the driver thread's place in _callback_ex
    user                  \* a client thread's place in add_callback/remove_callback

\* The threads that use the callbacks lock.
lsaThreads == <<callbacks_lock, driver, user>>

vars == <<points, last_point, waiting_for_values, timeout, scheduled, futures,
          ready, calibration_active, result_callbacks, submitted, pushed, bins,
          lastOp, log, delivered, exporter, queue, lsaThreads>>

Op(op, chan, fut, ret, exc) ==
    [op |-> op, chan |-> chan, fut |-> fut, ret |-> ret, exc |-> exc]

Handles == 1..MaxTimers

\* State after main() has registered the channels and the bridge callback,
\* apart from the exporter.
InitChannels ==
    /\ points = [c \in channels |-> <<>>]
    /\ last_point = [c \in channels |-> None]
    /\ waiting_for_values = [c \in channels |-> <<>>]
    /\ timeout = [c \in channels |-> 1]
    /\ scheduled = [c \in channels |-> {1}]
    /\ futures = <<>>
    /\ ready = <<>>
    /\ calibration_active = FALSE
    /\ result_callbacks = <<"bridge">>
    /\ submitted = [k \in Kinds |-> <<>>]
    /\ pushed = [c \in channels |-> <<>>]
    /\ bins = [c \in channels |-> <<>>]
    /\ lastOp = Op("init", "", 0, None, "")
    /\ log = <<>>
    /\ delivered = [c \in channels |-> [alias |-> FALSE, data |-> <<>>]]
    /\ callbacks_lock = {}
    /\ driver = DriverIdle
    /\ user = UserIdle

\* main() without --influxdb-endpoint (the default): exporter is None.
Init ==
    /\ InitChannels
    /\ exporter = FALSE
    /\ queue = <<>>

Min(S) == CHOOSE x \in S : \A y \in S : x <= y

(* ---------------------- server.py: the exporter ----------------------- *)

\* asyncio.Queue(100): the maxsize of InfluxDBExporter._queue.
QueueMaxSize == 100

\* The name reg_chan gives the chunker of a measurement type.
ChannelName(c) ==
    IF c = "temperature" THEN "temperature_celsius" ELSE "exposure_1_ms"

\* np.array(values), ascending.
RECURSIVE SortedNums(_)
SortedNums(s) ==
    IF s = <<>> THEN <<>>
    ELSE LET m == Min({s[i] : i \in DOMAIN s})
             k == Min({i \in DOMAIN s : s[i] = m})
         IN  <<m>> \o SortedNums(SubSeq(s, 1, k - 1) \o SubSeq(s, k + 1, Len(s)))

RECURSIVE SumNums(_)
SumNums(s) == IF s = <<>> THEN 0 ELSE Head(s) + SumNums(Tail(s))

\* np.percentile(data, q), linear interpolation, in hundredths.
Percentile(sorted, q) ==
    LET pos == q * (Len(sorted) - 1)
        lo == pos \div 100
        fr == pos % 100
    IN  IF fr = 0 THEN 100 * sorted[lo + 1]
        ELSE 100 * sorted[lo + 1] + fr * (sorted[lo + 2] - sorted[lo + 1])

\* The stats dict of InfluxDBExporter.push; the mean is kept as
\* <<sum, count>>, the percentiles in hundredths.
Stats(values) ==
    LET data == SortedNums([i \in DOMAIN values |-> values[i].n])
    IN  [min |-> data[1],
         p20 |-> Percentile(data, 20),
         mean |-> <<SumNums(data), Len(data)>>,
         p80 |-> Percentile(data, 80),
         max |-> data[Len(data)]]

\* asyncio.Queue.put_nowait: QueueFull when qsize() >= maxsize, else the
\* item joins the end of the queue.
PutNowaitUnbounded(q, item) == [queue |-> Append(q, item), full |-> FALSE]
PutNowait(q, item) ==
    IF Len(q) >= QueueMaxSize
    THEN [queue |-> q, full |-> TRUE]
    ELSE [queue |-> Append(q, item), full |-> FALSE]

\* InfluxDBExporter.push(field, values): the queue it leaves and the calls
\* it makes.  QueueFull is caught and logged as a warning.  The timestamp
\* of the entry is left out.
ExporterPush(q, field, values) ==
    LET r == PutNowait(q, [field |-> field, stats |-> Stats(values)])
    IN  [queue |-> r.queue,
         log |-> IF r.full THEN << <<"warning_queue_full", Len(r.queue)>> >>
                 ELSE << <<"put_nowait", Len(r.queue)>> >>]

\* InfluxDBExporter._do, line 70: `await self._queue.get()` takes the first
\* entry when there is one; the HTTP post that follows touches nothing of
\* the model.  Only a backlog within MaxBacklogGap of the maxsize is
\* explored.
ExporterDo ==
    /\ exporter
    /\ queue # <<>>
    /\ Len(queue) > QueueMaxSize - MaxBacklogGap
    /\ queue' = Tail(queue)
    /\ lastOp' = Op("exporter_do", Head(queue).field, 0, None, "")
    /\ log' = <<>>
    /\ UNCHANGED <<points, last_point, waiting_for_values, timeout, scheduled,
                   futures, ready, calibration_active, result_callbacks,
                   submitted, pushed, bins, delivered, exporter, lsaThreads>>

\* cb(values) of reg_chan: `if exporter: exporter.push(name, values)`.
cb(c, values, exp, q) ==
    IF exp THEN ExporterPush(q, ChannelName(c), values)
    ELSE [queue |-> q, log |-> <<>>]

(* ------------------------- sample_chunker.py -------------------------- *)

Done(fut) == fut.result # None

\* TimerHandle.cancel(): the handle leaves the loop's live timers; cancelling
\* a handle that already ran or was cancelled does nothing.
CancelKeepsTimer(live, h) == live
Cancel(live, h) == live \ {h}

\* The handle loop.call_later returns: a new object, distinct from every
\* live handle (the identity of a dead handle may be taken again).
FreeHandles(live) == Handles \ live
NewHandle(live) == Min(FreeHandles(live))

\* push: `len(self._points) == self.target_bin_size`.
BinIsFullOffByOne(pts) == Len(pts) = target_bin_size - 1
BinIsFullEveryPush(pts) == Len(pts) >= 1
BinIsFullOneLate(pts) == Len(pts) = target_bin_size + 1
BinIsFull(pts) == Len(pts) = target_bin_size

\* _finish_bin, line 74: `self._points = []` binds a new list; the list
\* handed to bin_finished is no longer the buffer and keeps its content.
\* (A clear() in place would empty the list the callback was given.)
ResetPointsKeeps(pts) == [points |-> pts, alias |-> TRUE, data |-> pts]
ResetPointsInPlace(pts) == [points |-> <<>>, alias |-> TRUE, data |-> <<>>]
ResetPoints(pts) == [points |-> <<>>, alias |-> FALSE, data |-> pts]

\* _finish_bin on a chunker whose buffer is pts, whose _timeout is tmo and
\* whose live timers are live.  A failed assert raises before anything is
\* changed.  bin_finished is the cb of reg_chan (server.py), which raises
\* nothing; the call is recorded in bins, and what cb does with the samples
\* is added by Push.
FinishBin(pts, tmo, live) ==
    IF pts = <<>>
    THEN [exc |-> "AssertionError", points |-> pts, timeout |-> tmo,
          scheduled |-> live, called |-> FALSE, log |-> <<>>,
          alias |-> TRUE, data |-> pts]
    ELSE LET live1 == Cancel(live, tmo)
             h == NewHandle(live1)
             rp == ResetPoints(pts)
         IN  [exc |-> "", points |-> rp.points, timeout |-> h,
              scheduled |-> live1 \cup {h}, called |-> TRUE,
              log |-> << <<"cancel", tmo>>, <<"bin_finished", Len(pts)>>,
                         <<"call_later", h>> >>,
              alias |-> rp.alias, data |-> rp.data]

\* The calls of _finish_bin with those bin_finished made in their place,
\* after the bin_finished entry.
WithCallbackLog(finishLog, cbLog) ==
    IF finishLog = <<>> THEN <<>>
    ELSE SubSeq(finishLog, 1, 2) \o cbLog \o SubSeq(finishLog, 3, Len(finishLog))

\* push, lines 63-64: set_result on each waiting Future, in list order.
\* Future.set_result on a Future that is already done raises
\* InvalidStateError, which ends the loop.
SetResultsFirstOnly(futs, ws, value) ==
    LET ids == IF ws = <<>> THEN {} ELSE {ws[1]}
    IN  [futures |-> [f \in DOMAIN futs |->
                        IF f \in ids THEN [futs[f] EXCEPT !.result = value]
                        ELSE futs[f]],
         exc |-> "",
         log |-> [i \in 1..Cardinality(ids) |-> <<"set_result", ws[i]>>]]
SetResultsAllPending(futs, ws, value) ==
    [futures |-> [f \in DOMAIN futs |->
                    IF ~Done(futs[f]) THEN [futs[f] EXCEPT !.result = value]
                    ELSE futs[f]],
     exc |-> "",
     log |-> [i \in 1..Len(ws) |-> <<"set_result", ws[i]>>]]
SetResults(futs, ws, value) ==
    LET bad == {i \in 1..Len(ws) : Done(futs[ws[i]])}
        k == IF bad = {} THEN Len(ws) ELSE Min(bad) - 1
        ids == {ws[i] : i \in 1..k}
    IN  [futures |-> [f \in DOMAIN futs |->
                        IF f \in ids THEN [futs[f] EXCEPT !.result = value]
                        ELSE futs[f]],
         exc |-> IF bad = {} THEN "" ELSE "InvalidStateError",
         log |-> [i \in 1..k |-> <<"set_result", ws[i]>>]]

\* push, line 65: self._waiting_for_values.clear().
ClearKeepsWaiters(ws) == ws
Clear(ws) == <<>>

\* push: the bin is finished (lines 60-61) before the waiters are notified
\* (lines 63-65).
PushOrderNotifyFirst(finishLog, notifyLog) == notifyLog \o finishLog
PushOrder(finishLog, notifyLog) == finishLog \o notifyLog

\* SampleChunker.push(value) on channel c: the state it leaves and the
\* exception it raises, if any.
Push(c, value) ==
    LET pts1 == Append(points[c], value)
        fb == IF BinIsFull(pts1)
              THEN FinishBin(pts1, timeout[c], scheduled[c])
              ELSE [exc |-> "", points |-> pts1, timeout |-> timeout[c],
                    scheduled |-> scheduled[c], called |-> FALSE, log |-> <<>>,
                    alias |-> TRUE, data |-> pts1]
        cr == IF fb.called THEN cb(c, pts1, exporter, queue)
              ELSE [queue |-> queue, log |-> <<>>]
        sr == IF fb.exc # ""
              THEN [futures |-> futures, exc |-> fb.exc, log |-> <<>>]
              ELSE SetResults(futures, waiting_for_values[c], value)
    IN  [points |-> fb.points,
         last_point |-> value,
         timeout |-> fb.timeout,
         scheduled |-> fb.scheduled,
         bins |-> IF fb.called THEN Append(bins[c], pts1) ELSE bins[c],
         futures |-> sr.futures,
         waiting |-> IF sr.exc # "" THEN waiting_for_values[c]
                     ELSE Clear(waiting_for_values[c]),
         exc |-> sr.exc,
         log |-> PushOrder(WithCallbackLog(fb.log, cr.log), sr.log),
         delivered |-> IF fb.called THEN [alias |-> fb.alias, data |-> fb.data]
                       ELSE IF delivered[c].alias
                            THEN [alias |-> TRUE, data |-> pts1]
                            ELSE delivered[c],
         queue |-> cr.queue]

\* The handle a push or a timer expiry needs for call_later exists.
CanSchedule(c) == FreeHandles(scheduled[c]) # {}

\* get_new on channel c: a Future is made and appended to the waiting list;
\* the coroutine then suspends on it.
GetNewState(c) ==
    LET f == Len(futures) + 1
    IN  /\ Len(futures) < MaxFutures
        /\ futures' = Append(futures,
                             [chan |-> c, result |-> None])
        /\ waiting_for_values' =
               [waiting_for_values EXCEPT ![c] = Append(@, f)]

get_new(c) ==
    /\ GetNewState(c)
    /\ lastOp' = Op("get_new", c, Len(futures) + 1, None, "")
    /\ log' = <<>>
    /\ UNCHANGED <<points, last_point, timeout, scheduled, ready,
                   calibration_active, result_callbacks, submitted, pushed, bins,
                   delivered, exporter, queue, lsaThreads>>

\* get_latest, line 46: `if not self._last_point`.
NoPointYet(lp) == Falsy(lp)

get_latest(c) ==
    /\ IF NoPointYet(last_point[c])
       THEN /\ GetNewState(c)
            /\ lastOp' = Op("get_latest", c, Len(futures) + 1, None, "")
       ELSE /\ lastOp' = Op("get_latest", c, 0, last_point[c], "")
            /\ UNCHANGED <<futures, waiting_for_values>>
    /\ log' = <<>>
    /\ UNCHANGED <<points, last_point, timeout, scheduled, ready,
                   calibration_active, result_callbacks, submitted, pushed, bins,
                   delivered, exporter, queue, lsaThreads>>

\* _timeout_elapsed, run by the loop when the live handle h of channel c is
\* due: a non-empty buffer is left as it is, an empty one is logged, and
\* _schedule_timeout makes the next handle.
TimeoutElapsedFinishAlways(c, h) ==
    LET live == scheduled[c] \ {h}
        fb == FinishBin(points[c], timeout[c], live)
        h2 == NewHandle(fb.scheduled)
    IN  /\ h \in scheduled[c]
        /\ fb.exc = "" => FreeHandles(fb.scheduled) # {}
        /\ points' = [points EXCEPT ![c] = fb.points]
        /\ bins' = [bins EXCEPT ![c] = IF fb.called THEN Append(@, points[c]) ELSE @]
        /\ scheduled' = [scheduled EXCEPT ![c] =
                           IF fb.exc = "" THEN fb.scheduled \cup {h2} ELSE live]
        /\ timeout' = [timeout EXCEPT ![c] = IF fb.exc = "" THEN h2 ELSE @]
        /\ lastOp' = Op("timeout_elapsed", c, 0, None, fb.exc)
        /\ log' = fb.log \o (IF fb.exc = "" THEN << <<"call_later", h2>> >> ELSE <<>>)
        /\ UNCHANGED <<last_point, waiting_for_values, futures, ready,
                       calibration_active, result_callbacks, submitted, pushed,
                       delivered, exporter, queue, lsaThreads>>
TimeoutElapsedDropsWaiters(c, h) ==
    LET live == scheduled[c] \ {h}
        h2 == NewHandle(live)
    IN  /\ h \in scheduled[c]
        /\ scheduled' = [scheduled EXCEPT ![c] = live \cup {h2}]
        /\ timeout' = [timeout EXCEPT ![c] = h2]
        /\ waiting_for_values' = [waiting_for_values EXCEPT ![c] = <<>>]
        /\ lastOp' = Op("timeout_elapsed", c, 0, None, "")
        /\ log' = << <<"call_later", h2>> >>
        /\ UNCHANGED <<points, last_point, futures, ready,
                       calibration_active, result_callbacks, submitted, pushed, bins,
                       delivered, exporter, queue, lsaThreads>>
TimeoutElapsed(c, h) ==
    LET live == scheduled[c] \ {h}
        h2 == NewHandle(live)
    IN  /\ h \in scheduled[c]
        /\ scheduled' = [scheduled EXCEPT ![c] = live \cup {h2}]
        /\ timeout' = [timeout EXCEPT ![c] = h2]
        /\ lastOp' = Op("timeout_elapsed", c, 0, None, "")
        /\ log' = (IF points[c] # <<>> THEN <<>> ELSE << <<"log_no_data", 0>> >>)
                  \o << <<"call_later", h2>> >>
        /\ UNCHANGED <<points, last_point, waiting_for_values, futures, ready,
                       calibration_active, result_callbacks, submitted, pushed, bins,
                       delivered, exporter, queue, lsaThreads>>

(* ------------------- driver thread: wlm_data.py ----------------------- *)

\* loop.call_soon_threadsafe(callback): the callback joins the end of the
\* loop's ready queue.
CallSoonThreadsafeLifo(q, item) == <<item>> \o q
CallSoonThreadsafe(q, item) == Append(q, item)

\* The bridge registered by main(): lambda *a: loop.call_soon_threadsafe(
\* lambda: meas_cb(*a)).
Bridge(q, meas_type, meas_value) ==
    CallSoonThreadsafe(q, [meas_type |-> meas_type, meas_value |-> meas_value])

\* `for cb in self._result_callbacks: cb(meas_type, meas_value)`.
RECURSIVE InvokeCallbacks(_, _, _, _)
InvokeCallbacks(cbs, q, meas_type, meas_value) ==
    IF cbs = <<>> THEN q
    ELSE InvokeCallbacks(Tail(cbs), Bridge(q, meas_type, meas_value),
                         meas_type, meas_value)

\* _callback_ex, line 313: `if ver != self._device_version`.
WrongVersionNever(ver) == FALSE
WrongVersion(ver) == ver # device_version

\* LSA._callback_ex(ver, mode, intval, dblval, res1), called by the driver
\* on its own thread.  (Were the registered callback meas_cb itself, the
\* driver thread would append to the channel's buffer.)
callback_exPushesDirectly(ver, mode, intval, dblval, res1) ==
    LET dispatch == /\ ver = device_version /\ ~calibration_active
                    /\ mode \in MeasurementType
        meas_value == IF is_double_measurement(mode)
                      THEN Double(dblval) ELSE Long(intval)
    IN  /\ dispatch
        /\ SumLen(submitted, Kinds) + Len(result_callbacks) <= MaxEvents
        /\ points' = [points EXCEPT ![mode] = Append(@, float(meas_value))]
        /\ submitted' = [submitted EXCEPT ![mode] = Append(@, meas_value)]
        /\ UNCHANGED <<last_point, waiting_for_values, timeout, scheduled, ready,
                       calibration_active, futures, result_callbacks, pushed, bins,
                       lastOp, log, delivered, exporter, queue, lsaThreads>>
callback_ex(ver, mode, intval, dblval, res1) ==
    LET wrongVer == WrongVersion(ver)
        isStart == ~wrongVer /\ mode = "cmiStartCalibration"
        isEnd == ~wrongVer /\ mode = "cmiEndCalibration"
        gated == ~wrongVer /\ ~isStart /\ ~isEnd /\ calibration_active
        dispatch == /\ ~wrongVer /\ ~isStart /\ ~isEnd /\ ~gated
                    /\ mode \in MeasurementType
        meas_value == IF is_double_measurement(mode)
                      THEN Double(dblval) ELSE Long(intval)
    IN  /\ dispatch => SumLen(submitted, Kinds) + Len(result_callbacks) <= MaxEvents
        /\ calibration_active' = IF isStart THEN TRUE
                                 ELSE IF isEnd THEN FALSE
                                 ELSE calibration_active
        /\ ready' = IF dispatch
                    THEN InvokeCallbacks(result_callbacks, ready, mode, meas_value)
                    ELSE ready
        /\ submitted' = IF dispatch
                        THEN [submitted EXCEPT ![mode] =
                                @ \o [i \in 1..Len(result_callbacks) |-> meas_value]]
                        ELSE submitted
        /\ UNCHANGED <<points, last_point, waiting_for_values, timeout, scheduled,
                       futures, result_callbacks, pushed, bins, lastOp, log,
                       delivered, exporter, queue, lsaThreads>>

(* ------------- wlm_data.py: the callbacks lock, step by step ---------- *)

\* The event-loop and exporter state, which the LSA object never touches.
serverState ==
    <<points, last_point, waiting_for_values, timeout, scheduled, futures,
      pushed, bins, lastOp, log, delivered, exporter, queue>>

\* threading.Lock: `with lock` proceeds only when no thread holds it.
CanAcquireAlways(holders) == TRUE
CanAcquire(holders) == holders = {}

\* list.remove(cb): the first cb leaves the list; ValueError when there is
\* none.
Remove(cbs, f) ==
    LET at == {i \in DOMAIN cbs : cbs[i] = f}
    IN  IF at = {} THEN [list |-> cbs, exc |-> "ValueError"]
        ELSE [list |-> SubSeq(cbs, 1, Min(at) - 1)
                       \o SubSeq(cbs, Min(at) + 1, Len(cbs)),
              exc |-> ""]

\* The callables a client registers: the bridge of main() and another one.
Callables == {"bridge", "cb2"}

\* _callback_ex, lines 313-343: everything before the `with`.  A call that
\* is filtered returns here; a measurement goes on to take the lock.
callback_ex_begin(ver, mode, intval, dblval, res1) ==
    LET wrongVer == WrongVersion(ver)
        isStart == ~wrongVer /\ mode = "cmiStartCalibration"
        isEnd == ~wrongVer /\ mode = "cmiEndCalibration"
        gated == ~wrongVer /\ ~isStart /\ ~isEnd /\ calibration_active
        dispatch == /\ ~wrongVer /\ ~isStart /\ ~isEnd /\ ~gated
                    /\ mode \in MeasurementType
        meas_value == IF is_double_measurement(mode)
                      THEN Double(dblval) ELSE Long(intval)
    IN  /\ driver.pc = "idle"
        /\ dispatch => driver.n < MaxDispatches
        /\ calibration_active' = IF isStart THEN TRUE
                                 ELSE IF isEnd THEN FALSE
                                 ELSE calibration_active
        /\ driver' = IF dispatch
                     THEN [pc |-> "acquire", i |-> 0, meas_type |-> mode,
                           meas_value |-> meas_value, at_begin |-> <<>>,
                           called |-> <<>>, n |-> driver.n + 1]
                     ELSE driver
        /\ UNCHANGED <<result_callbacks, ready, submitted, callbacks_lock, user>>
        /\ UNCHANGED serverState

\* _callback_ex, line 344: the lock is taken and `for cb in
\* self._result_callbacks` makes its list iterator.
callback_ex_acquire ==
    /\ driver.pc = "acquire"
    /\ CanAcquire(callbacks_lock)
    /\ callbacks_lock' = callbacks_lock \cup {"driver"}
    /\ driver' = [driver EXCEPT !.pc = "iterate", !.i = 1,
                                !.at_begin = result_callbacks]
    /\ UNCHANGED <<calibration_active, result_callbacks, ready, submitted, user>>
    /\ UNCHANGED serverState

\* _callback_ex, lines 345-346: the iterator yields the element at its
\* index of the list as it is now, and cb is called; past the end the loop
\* ends and the lock is released.  The bridge queues the event on the loop.
callback_ex_iterate ==
    /\ driver.pc = "iterate"
    /\ IF driver.i <= Len(result_callbacks)
       THEN LET f == result_callbacks[driver.i]
            IN  /\ driver' = [driver EXCEPT !.i = @ + 1,
                                            !.called = Append(@, f)]
                /\ ready' = IF f = "bridge"
                            THEN Bridge(ready, driver.meas_type, driver.meas_value)
                            ELSE ready
                /\ submitted' = IF f = "bridge"
                                THEN [submitted EXCEPT ![driver.meas_type] =
                                        Append(@, driver.meas_value)]
                                ELSE submitted
                /\ UNCHANGED callbacks_lock
       ELSE /\ driver' = [driver EXCEPT !.pc = "idle"]
            /\ callbacks_lock' = callbacks_lock \ {"driver"}
            /\ UNCHANGED <<ready, submitted>>
    /\ UNCHANGED <<calibration_active, result_callbacks, user>>
    /\ UNCHANGED serverState

\* A client thread calls add_callback(cb) or remove_callback(cb).
edit_begin(op, f) ==
    /\ user.pc = "idle"
    /\ user.n < MaxEdits
    /\ user' = [pc |-> "acquire", op |-> op, cb |-> f, n |-> user.n + 1,
                exc |-> ""]
    /\ UNCHANGED <<calibration_active, result_callbacks, ready, submitted,
                   callbacks_lock, driver>>
    /\ UNCHANGED serverState

\* add_callback / remove_callback: `with self._result_callbacks_lock`.
edit_acquire ==
    /\ user.pc = "acquire"
    /\ CanAcquire(callbacks_lock)
    /\ callbacks_lock' = callbacks_lock \cup {"user"}
    /\ user' = [user EXCEPT !.pc = "locked"]
    /\ UNCHANGED <<calibration_active, result_callbacks, ready, submitted, driver>>
    /\ UNCHANGED serverState

\* add_callback / remove_callback: the list is changed and the `with`
\* block is left, which releases the lock (also when remove raises).
edit_apply ==
    /\ user.pc = "locked"
    /\ LET r == IF user.op = "add"
                THEN [list |-> Append(result_callbacks, user.cb), exc |-> ""]
                ELSE Remove(result_callbacks, user.cb)
       IN  /\ result_callbacks' = r.list
           /\ user' = [user EXCEPT !.pc = "idle", !.exc = r.exc]
    /\ callbacks_lock' = callbacks_lock \ {"user"}
    /\ UNCHANGED <<calibration_active, ready, submitted, driver>>
    /\ UNCHANGED serverState

(* --------------------- event loop: server.py -------------------------- *)

\* meas_cb, line 115: `if meas_type in channels`.
RegisteredAlways(meas_type) == TRUE
Registered(meas_type) == meas_type \in channels

\* The loop runs the first ready callback: meas_cb(meas_type, meas_value).
\* channels[meas_type] raises KeyError for a key the dict does not hold.
meas_cb ==
    /\ ready # <<>>
    /\ LET e == Head(ready)
           c == e.meas_type
       IN  IF Registered(c) /\ c \in channels
           THEN LET r == Push(c, float(e.meas_value))
                IN  /\ CanSchedule(c)
                    /\ points' = [points EXCEPT ![c] = r.points]
                    /\ last_point' = [last_point EXCEPT ![c] = r.last_point]
                    /\ waiting_for_values' =
                           [waiting_for_values EXCEPT ![c] = r.waiting]
                    /\ timeout' = [timeout EXCEPT ![c] = r.timeout]
                    /\ scheduled' = [scheduled EXCEPT ![c] = r.scheduled]
                    /\ futures' = r.futures
                    /\ bins' = [bins EXCEPT ![c] = r.bins]
                    /\ pushed' = [pushed EXCEPT ![c] = Append(@, float(e.meas_value))]
                    /\ lastOp' = Op("push", c, 0, float(e.meas_value), r.exc)
                    /\ log' = r.log
                    /\ delivered' = [delivered EXCEPT ![c] = r.delivered]
                    /\ queue' = r.queue
           ELSE /\ lastOp' = Op("dropped", c, 0, e.meas_value,
                                IF Registered(c) THEN "KeyError" ELSE "")
                /\ log' = <<>>
                /\ UNCHANGED <<points, last_point, waiting_for_values, timeout,
                               scheduled, futures, bins, pushed, delivered,
                               queue>>
    /\ ready' = Tail(ready)
    /\ UNCHANGED <<calibration_active, result_callbacks, submitted, exporter, lsaThreads>>

\* meas_cb when the push completes a bin and the bin_finished callable
\* given to SampleChunker raises: push has run lines 57-58 and _finish_bin
\* lines 68-72 (the timer is cancelled, the callable was called); the
\* exception leaves _finish_bin before line 74, push before line 63 and
\* meas_cb, and the loop logs it.
meas_cbRaises ==
    /\ ready # <<>>
    /\ LET e == Head(ready)
           c == e.meas_type
           value == float(e.meas_value)
       IN  /\ Registered(c) /\ c \in channels
           /\ BinIsFull(Append(points[c], value))
           /\ points' = [points EXCEPT ![c] = Append(@, value)]
           /\ last_point' = [last_point EXCEPT ![c] = value]
           /\ scheduled' = [scheduled EXCEPT ![c] = Cancel(@, timeout[c])]
           /\ bins' = [bins EXCEPT ![c] = Append(@, Append(points[c], value))]
           /\ delivered' = [delivered EXCEPT ![c] =
                              [alias |-> TRUE, data |-> Append(points[c], value)]]
           /\ pushed' = [pushed EXCEPT ![c] = Append(@, value)]
           /\ lastOp' = Op("push", c, 0, value, "CallbackError")
           /\ log' = << <<"cancel", timeout[c]>>,
                        <<"bin_finished", Len(points[c]) + 1>> >>
    /\ ready' = Tail(ready)
    /\ UNCHANGED <<waiting_for_values, timeout, futures, calibration_active,
                   result_callbacks, submitted, exporter, queue, lsaThreads>>

(* -------------------------- specifications ---------------------------- *)

DriverCallback ==
    \E a \in DriverCalls : callback_ex(a[1], a[2], a[3], a[4], a[5])

BinTimer == \E c \in channels : \E h \in Handles : TimeoutElapsed(c, h)

GetLatest == \E c \in channels : get_latest(c)

GetNew == \E c \in channels : get_new(c)

Next == DriverCallback \/ meas_cb \/ BinTimer \/ GetLatest \/ GetNew

Spec == Init /\ [][Next]_vars

\* The bridge callable handed to add_callback, called with any measurement
\* kind (the driver callback contract of the specification): the kinds of
\* MeasurementType and one that no channel is registered for.
BridgeCalls ==
    {<<"temperature", Double(0)>>, <<"temperature", Double(1)>>,
     <<"exposure_time_1", Long(1)>>, <<"unregistered_xyz", Double(1)>>}

Submit ==
    \E a \in BridgeCalls :
        /\ SumLen(submitted, Kinds) < MaxEvents
        /\ ready' = Bridge(ready, a[1], a[2])
        /\ submitted' = [submitted EXCEPT ![a[1]] = Append(@, a[2])]
        /\ UNCHANGED <<points, last_point, waiting_for_values, timeout, scheduled,
                       futures, calibration_active, result_callbacks, pushed, bins,
                       lastOp, log, delivered, exporter, queue, lsaThreads>>

NextDispatch == Submit \/ meas_cb \/ BinTimer \/ GetLatest \/ GetNew

SpecDispatch == Init /\ [][NextDispatch]_vars

\* The server with a bin_finished callable that may raise.
NextRaise ==
    DriverCallback \/ meas_cb \/ meas_cbRaises \/ BinTimer \/ GetLatest \/ GetNew

SpecRaise == Init /\ [][NextRaise]_vars

\* A backlog of n entries as InfluxDBExporter.push leaves them: bins of
\* target_bin_size samples of the two channels in turn.
Backlog(n) ==
    [i \in 1..n |->
        [field |-> IF i % 2 = 0 THEN "temperature_celsius" ELSE "exposure_1_ms",
         stats |-> Stats([j \in 1..target_bin_size |->
                            Double(IF i % 2 = 0 /\ j = 1 THEN 0 ELSE 1)])]]

\* main() with --influxdb-endpoint, at a moment when the posts have fallen
\* behind (the queue is full or one short of it), every chunker has just
\* finished a bin and no RPC client is connected; the history variables
\* start here.
InitExporter ==
    /\ InitChannels
    /\ exporter = TRUE
    /\ queue \in {Backlog(QueueMaxSize - 1), Backlog(QueueMaxSize)}

NextExporter == DriverCallback \/ meas_cb \/ BinTimer \/ ExporterDo

SpecExporter == InitExporter /\ [][NextExporter]_vars

\* The LSA object used by a driver thread and a client thread, each
\* followed statement by statement.
DriverBegin ==
    \E a \in DriverCalls : callback_ex_begin(a[1], a[2], a[3], a[4], a[5])

EditBegin == \E op \in {"add", "remove"} : \E f \in Callables : edit_begin(op, f)

NextLock ==
    \/ DriverBegin
    \/ callback_ex_acquire
    \/ callback_ex_iterate
    \/ EditBegin
    \/ edit_acquire
    \/ edit_apply

SpecLock == Init /\ [][NextLock]_vars

(* ------------------------------ claims -------------------------------- *)

Range(s) == {s[i] : i \in DOMAIN s}
Last(s) == s[Len(s)]
HasLog(tag) == \E i \in DOMAIN log : log[i][1] = tag
CountLog(tag) == Cardinality({i \in DOMAIN log : log[i][1] = tag})
IsSetResult(e) == e[1] = "set_result"

\* The last handler was a push that finished a bin by count.
CountFlush == lastOp.op = "push" /\ HasLog("bin_finished")

\* A step in which push ran on channel c.
PushStep(c) == pushed'[c] # pushed[c]

\* C1: a flush triggered by the count invokes bin_finished with exactly
\* target_bin_size samples, the most recent target_bin_size pushed values in
\* push order.
C1_CountFlushCarriesTargetBinSize ==
    CountFlush =>
        LET c == lastOp.chan
            n == Len(pushed[c])
        IN  /\ bins[c] # <<>>
            /\ Len(Last(bins[c])) = target_bin_size
            /\ n >= target_bin_size
            /\ Last(bins[c]) = SubSeq(pushed[c], n - target_bin_size + 1, n)

\* A second count flush on a channel, whose bin differs from the first.
C1_Witness ==
    /\ CountFlush
    /\ Len(bins[lastOp.chan]) = 2
    /\ bins[lastOp.chan][1] # bins[lastOp.chan][2]

\* C2: a timer expiry with a non-empty buffer performs a flush: bin_finished
\* is invoked with the accumulated points and points is cleared.
C2_TimerExpiryFlushesNonEmptyBin ==
    lastOp.op = "timeout_elapsed" =>
        /\ points[lastOp.chan] = <<>>
        /\ HasLog("bin_finished") \/ HasLog("log_no_data")

\* C3: no flush is attempted on an empty buffer: the assert of _finish_bin
\* never fails, bin_finished never receives an empty bin, and a timer expiry
\* with no samples only logs and reschedules.
C3_NoFlushOfEmptyBin ==
    /\ lastOp.exc # "AssertionError"
    /\ \A i \in DOMAIN log : log[i][1] = "bin_finished" => log[i][2] > 0
    /\ \A c \in channels : \A i \in DOMAIN bins[c] : bins[c][i] # <<>>
    /\ (lastOp.op = "timeout_elapsed" /\ points[lastOp.chan] = <<>>) =>
           /\ ~HasLog("bin_finished")
           /\ HasLog("log_no_data")
           /\ HasLog("call_later")

\* A timer expiry on a channel that has never received a sample.
C3_Witness ==
    /\ lastOp.op = "timeout_elapsed"
    /\ pushed[lastOp.chan] = <<>>
    /\ HasLog("log_no_data")
    /\ bins[lastOp.chan] = <<>>

\* C4: every channel has exactly one outstanding timer, the one its chunker
\* holds; a count flush cancels the pending timer before it schedules the
\* replacement, and a timer expiry schedules exactly one timer.
C4_ExactlyOneTimer ==
    /\ \A c \in channels : scheduled[c] = {timeout[c]}
    /\ lastOp.op = "timeout_elapsed" => CountLog("call_later") = 1
    /\ CountFlush =>
           /\ CountLog("call_later") = 1
           /\ CountLog("cancel") = 1
           /\ \A i, j \in DOMAIN log :
                  (log[i][1] = "cancel" /\ log[j][1] = "call_later") => i < j

\* A count flush on one channel while the other holds samples of an
\* unfinished bin, each channel with its one timer.
C4_Witness ==
    /\ CountFlush
    /\ \E c \in channels : c # lastOp.chan /\ pushed[c] # <<>> /\ bins[c] = <<>>
    /\ \A c \in channels : Cardinality(scheduled[c]) = 1

\* C5: get_latest before any push suspends on a waiter; after at least one
\* push it returns the most recently pushed value at once, registering no
\* waiter, whatever the value.
C5_GetLatestReturnsLastPushed ==
    lastOp.op = "get_latest" =>
        IF pushed[lastOp.chan] = <<>>
        THEN lastOp.fut # 0
        ELSE lastOp.fut = 0 /\ lastOp.ret = Last(pushed[lastOp.chan])

\* C6: the waiters pending when push(v) runs all resolve with v; a waiter
\* registered later is pending until a later push and takes that push's value.
C6_PendingIffWaiting ==
    \A f \in DOMAIN futures :
        ~Done(futures[f]) <=> f \in Range(waiting_for_values[futures[f].chan])

C6_PushResolvesStep ==
    /\ \A c \in channels : PushStep(c) =>
           \A f \in Range(waiting_for_values[c]) :
               futures'[f].result = Last(pushed'[c])
    /\ \A f \in DOMAIN futures :
           (~Done(futures[f]) /\ Done(futures'[f])) =>
               /\ PushStep(futures[f].chan)
               /\ futures'[f].result = Last(pushed'[futures[f].chan])

C6_WaitersGetNextPush == [](C6_PendingIffWaiting) /\ [][C6_PushResolvesStep]_vars

\* Two waiters resolved by one push, with the value of that push.
C6_Witness ==
    /\ lastOp.op = "push"
    /\ CountLog("set_result") = 2
    /\ \A f \in DOMAIN futures :
           futures[f].chan = lastOp.chan /\ futures[f].result = lastOp.ret
    /\ Len(pushed[lastOp.chan]) = 2

\* C7: within one push the count flush completes before any waiter is
\* resolved, the waiters are resolved in registration order, and no waiter
\* is left when push returns.
C7_PushStep ==
    \A c \in channels : PushStep(c) =>
        /\ SelectSeq(log', IsSetResult) =
               [i \in 1..Len(waiting_for_values[c]) |->
                   <<"set_result", waiting_for_values[c][i]>>]
        /\ \A i, j \in DOMAIN log' :
               (log'[i][1] # "set_result" /\ log'[j][1] = "set_result") => i < j
        /\ waiting_for_values'[c] = <<>>

C7_FlushBeforeWaitersInOrder == [][C7_PushStep]_vars

\* A push that finishes a bin and resolves two waiters.
C7_Witness ==
    /\ CountFlush
    /\ CountLog("set_result") = 2
    /\ waiting_for_values[lastOp.chan] = <<>>

\* C8: a waiter is resolved at most once, by the first push after its
\* registration, and that push removes it from the waiting list.
C8_ResolvedNotWaiting ==
    /\ lastOp.exc # "InvalidStateError"
    /\ \A c \in channels : \A i \in DOMAIN waiting_for_values[c] :
           /\ ~Done(futures[waiting_for_values[c][i]])
           /\ futures[waiting_for_values[c][i]].chan = c
           /\ \A j \in DOMAIN waiting_for_values[c] :
                  waiting_for_values[c][i] = waiting_for_values[c][j] => i = j

C8_OneShotStep ==
    \A f \in DOMAIN futures :
        /\ f \in DOMAIN futures'
        /\ Done(futures[f]) => futures'[f] = futures[f]
        /\ (~Done(futures[f]) /\ PushStep(futures[f].chan)) =>
               /\ futures'[f].result = Last(pushed'[futures[f].chan])
               /\ f \notin Range(waiting_for_values'[futures[f].chan])

C8_WaiterIsOneShot == [](C8_ResolvedNotWaiting) /\ [][C8_OneShotStep]_vars

\* A resolved waiter keeps its value after a later push of another value on
\* its channel.
C8_Witness ==
    /\ lastOp.op = "push"
    /\ \E f \in DOMAIN futures :
           /\ futures[f].chan = lastOp.chan
           /\ Done(futures[f])
           /\ futures[f].result # lastOp.ret

\* The values queued in the ready list for channel c, as push receives them.
RECURSIVE ReadyFor(_, _)
ReadyFor(q, c) ==
    IF q = <<>> THEN <<>>
    ELSE (IF Head(q).meas_type = c THEN <<float(Head(q).meas_value)>> ELSE <<>>)
         \o ReadyFor(Tail(q), c)

Floats(s) == [i \in DOMAIN s |-> float(s[i])]

\* C9: for every channel the values pushed, followed by those still queued,
\* are the values the driver thread submitted for that kind, in submission
\* order, none lost or duplicated.
C9_BridgeIsFifo ==
    \A c \in channels :
        pushed[c] \o ReadyFor(ready, c) = Floats(submitted[c])

\* Both channels have received interleaved events and every submitted event
\* has been delivered.
C9_Witness ==
    /\ ready = <<>>
    /\ Len(pushed["temperature"]) >= 2
    /\ pushed["temperature"][1] # pushed["temperature"][2]
    /\ pushed["exposure_time_1"] # <<>>
    /\ pushed["exposure_time_1"] = Floats(submitted["exposure_time_1"])

\* C10: an event whose kind has no channel is dropped: the state of every
\* channel is unchanged and no error is raised.
C10_DropStep ==
    (ready # <<>> /\ ready' = Tail(ready) /\ Head(ready).meas_type \notin channels) =>
        /\ UNCHANGED <<points, last_point, waiting_for_values, timeout, scheduled,
                       futures, pushed, bins>>
        /\ lastOp'.op = "dropped"
        /\ lastOp'.exc = ""

C10_UnregisteredKindDropped == [][C10_DropStep]_vars

\* An event of an unregistered kind was dropped while a channel held a
\* sample and a waiter.
C10_Witness ==
    /\ lastOp.op = "dropped"
    /\ lastOp.chan \in UnregisteredKinds
    /\ \E c \in channels : points[c] # <<>> /\ waiting_for_values[c] # <<>>

\* The state of the channels: points, lastValue, pendingWaiters (with the
\* Futures they hold) and activeTimer (with the loop's live timers).
ChannelState ==
    <<points, last_point, waiting_for_values, futures, timeout, scheduled>>

\* A step of the driver thread: _callback_ex is the only code that changes
\* the calibration flag or hands a value to the bridge.
DriverStep ==
    submitted' # submitted \/ calibration_active' # calibration_active


C11_Step ==
    /\ DriverStep =>
          /\ UNCHANGED ChannelState
          /\ UNCHANGED <<pushed, bins, delivered>>
          /\ \/ ready' = ready
             \/ \E k \in Kinds :
                    /\ Len(submitted'[k]) = Len(submitted[k]) + 1
                    /\ ready' = Append(ready, [meas_type |-> k,
                                               meas_value |-> Last(submitted'[k])])
    /\ ChannelState' # ChannelState =>
          /\ ~DriverStep
          /\ lastOp'.op \in {"push", "get_new", "get_latest", "timeout_elapsed"}
    /\ \/ ready' = ready
       \/ ready # <<>> /\ ready' = Tail(ready)
       \/ ready' # <<>> /\ ready' = Append(ready, Last(ready'))

\* C11: every change of a channel's points, lastValue, pendingWaiters and
\* activeTimer is made by a handler of the event loop; a step of the driver
\* thread leaves the channel state as it is and at most appends the
\* immutable (kind, value) pair to the loop's ready queue, whose entries
\* are never altered while they wait.
C11_DriverOnlyEnqueues == [][C11_Step]_vars

\* C11 witness: the driver thread has handed over a value that still waits
\* in the ready queue while a channel holds samples and a pending waiter.
C11_Witness ==
    \E c \in channels :
        /\ ready # <<>>
        /\ points[c] # <<>>
        /\ waiting_for_values[c] # <<>>
        /\ Last(ready).meas_type = c

\* A step in which bin_finished was called for channel c.
FlushStep(c) == bins'[c] # bins[c]

C12_Step ==
    \A c \in channels :
        FlushStep(c) =>
            /\ PushStep(c)
            /\ Len(bins'[c]) = Len(bins[c]) + 1
            /\ Len(pushed'[c]) % target_bin_size = 0

\* C12: from an empty buffer, target_bin_size pushes trigger exactly one
\* flush and the next flush comes only with target_bin_size more pushes:
\* after n pushes on a channel there have been n \div target_bin_size
\* flushes, each made by the push that completes a bin (a timer expiry in
\* between adds none).
C12_FlushesPerPushes ==
    /\ [](\A c \in channels :
            Len(bins[c]) = Len(pushed[c]) \div target_bin_size)
    /\ [][C12_Step]_vars

\* C12 witness: a channel has flushed once and has taken a further push
\* that did not flush.
C12_Witness ==
    \E c \in channels :
        /\ lastOp.op = "push" /\ lastOp.chan = c /\ lastOp.exc = ""
        /\ ~HasLog("bin_finished")
        /\ Len(bins[c]) = 1
        /\ Len(pushed[c]) = target_bin_size + 1

\* The bins of a channel in flush order, joined.
RECURSIVE Flatten(_)
Flatten(ss) == IF ss = <<>> THEN <<>> ELSE Head(ss) \o Flatten(Tail(ss))

\* C13: binning loses, duplicates and reorders nothing: on every channel
\* the bins handed to bin_finished, in flush order, followed by the current
\* points buffer are the pushed values in push order.
C13_NoSampleLost ==
    \A c \in channels : Flatten(bins[c]) \o points[c] = pushed[c]

\* C13 witness: a timer expiry on a channel that has flushed a bin of two
\* different values and holds a further sample.
C13_Witness ==
    \E c \in channels :
        /\ lastOp.op = "timeout_elapsed" /\ lastOp.chan = c
        /\ bins[c] # <<>>
        /\ points[c] # <<>>
        /\ pushed[c][1] # pushed[c][2]

\* s is an initial part of t.
IsPrefix(s, t) == Len(s) <= Len(t) /\ SubSeq(t, 1, Len(s)) = s

C14_Step ==
    /\ lastOp'.op = "timeout_elapsed" =>
          UNCHANGED <<futures, waiting_for_values, last_point>>
    /\ \A f \in DOMAIN futures :
          ~Done(futures[f]) /\ Done(futures'[f]) => PushStep(futures[f].chan)
    /\ \A c \in channels :
          ~IsPrefix(waiting_for_values[c], waiting_for_values'[c]) => PushStep(c)

\* C14: a timer expiry resolves and removes no pending waiter and leaves
\* lastValue alone; a waiter leaves the waiting list, and its Future gets a
\* result, only in a push on its own channel.
C14_TimerLeavesWaiters == [][C14_Step]_vars

\* C14 witness: a timer expired on a channel that has a lastValue and a
\* waiter, and the waiter is still pending.
C14_Witness ==
    \E c \in channels :
        /\ lastOp.op = "timeout_elapsed" /\ lastOp.chan = c
        /\ last_point[c] # None
        /\ waiting_for_values[c] # <<>>
        /\ \A i \in DOMAIN waiting_for_values[c] :
               ~Done(futures[waiting_for_values[c][i]])

\* Something of channel c changes in this step: its buffer, lastValue,
\* waiting list, timer, or one of the Futures made on it.
ChannelChanges(c) ==
    \/ points'[c] # points[c]
    \/ last_point'[c] # last_point[c]
    \/ waiting_for_values'[c] # waiting_for_values[c]
    \/ timeout'[c] # timeout[c]
    \/ scheduled'[c] # scheduled[c]
    \/ bins'[c] # bins[c]
    \/ \E f \in DOMAIN futures :
           futures[f].chan = c /\ futures'[f] # futures[f]

C15_Step ==
    \A c \in channels :
        /\ ChannelChanges(c) =>
              /\ lastOp'.chan = c
              /\ \A d \in channels \ {c} : ~ChannelChanges(d)
        /\ PushStep(c) =>
              /\ Head(ready).meas_type = c
              /\ \A d \in channels \ {c} : ~PushStep(d)

\* C15: channels are independent: a push, flush or timer expiry on one
\* channel leaves the points, lastValue, pendingWaiters and timer of every
\* other channel unchanged, and a push routed to one channel resolves no
\* waiter registered on another.
C15_ChannelsIndependent == [][C15_Step]_vars

\* C15 witness: a push on one channel resolved that channel's waiter while
\* another channel holds a sample and a waiter that is still pending.
C15_Witness ==
    \E c \in channels : \E d \in channels \ {c} :
        /\ lastOp.op = "push" /\ lastOp.chan = c
        /\ HasLog("set_result")
        /\ points[d] # <<>>
        /\ waiting_for_values[d] # <<>>
        /\ \A i \in DOMAIN waiting_for_values[d] :
               ~Done(futures[waiting_for_values[d][i]])

\* C16: after every push and timer expiry the buffer of a channel holds
\* fewer than target_bin_size samples: the push that makes it reach
\* target_bin_size empties it.
C16_BufferBelowTarget ==
    \A c \in channels : Len(points[c]) < target_bin_size

\* C16 witness: the push that completed a bin left the buffer empty, and a
\* further push then left one sample in it.
C16_Witness ==
    \E c \in channels :
        /\ lastOp.op = "push" /\ lastOp.chan = c
        /\ Len(pushed[c]) = 2 * target_bin_size - 1
        /\ Len(points[c]) = target_bin_size - 1
        /\ Len(bins[c]) = 1

\* C17: when bin_finished raises in a count-triggered flush, the channel
\* stays usable: it keeps one outstanding timer, the waiters pending at the
\* failed push are resolved, and the buffer does not grow past
\* target_bin_size.
C17_ChannelUsableAfterRaise ==
    \A c \in channels :
        /\ Cardinality(scheduled[c]) = 1
        /\ Len(points[c]) <= target_bin_size
        /\ lastOp.op = "push" /\ lastOp.chan = c /\ lastOp.exc = "CallbackError" =>
              /\ waiting_for_values[c] = <<>>
              /\ \A f \in DOMAIN futures :
                     futures[f].chan = c => Done(futures[f])

\* C18: the list handed to bin_finished for a bin is not changed by the
\* channel afterwards: the buffer is a fresh list, so the delivered list
\* still holds exactly the samples it was delivered with, whatever pushes,
\* flushes and timer expiries follow.
C18_DeliveredBinUnchanged ==
    \A c \in channels :
        bins[c] # <<>> =>
            /\ ~delivered[c].alias
            /\ delivered[c].data = Last(bins[c])

\* C18 witness: a channel delivered a bin and has taken a push into its new
\* buffer since.
C18_Witness ==
    \E c \in channels :
        /\ bins[c] # <<>>
        /\ points[c] # <<>>
        /\ Last(points[c]) # Last(Last(bins[c]))
        /\ delivered[c].data = Last(bins[c])

\* What a call a = <<ver, mode, intval, dblval, res1>> of the driver
\* callback may do to the calibration flag and the registered callbacks.
C19_Call(a) ==
    LET matching == a[1] = device_version
        isStart == matching /\ a[2] = "cmiStartCalibration"
        isEnd == matching /\ a[2] = "cmiEndCalibration"
    IN  /\ ~matching => UNCHANGED <<calibration_active, ready, submitted>>
        /\ isStart => calibration_active'
        /\ isEnd => ~calibration_active'
        /\ ~isStart /\ ~isEnd => UNCHANGED calibration_active
        /\ calibration_active \/ isStart \/ isEnd => UNCHANGED <<ready, submitted>>

\* The start- and end-calibration calls of the matching device version:
\* the only calls for which C19_Call asks anything of a step that leaves
\* the flag, the ready queue and the submissions as they are.
C19_StartEndCalls ==
    {a \in DriverCalls :
        /\ a[1] = device_version
        /\ a[2] \in {"cmiStartCalibration", "cmiEndCalibration"}}

\* Every step that is a call a of _callback_ex does what C19_Call(a) allows.
C19_Step ==
    /\ \A a \in (IF UNCHANGED <<calibration_active, ready, submitted>>
                  THEN C19_StartEndCalls ELSE DriverCalls) :
          C19_Call(a) \/ ~callback_ex(a[1], a[2], a[3], a[4], a[5])
    /\ calibration_active' # calibration_active =>
          \E a \in DriverCalls :
             /\ callback_ex(a[1], a[2], a[3], a[4], a[5])
             /\ a[1] = device_version
             /\ a[2] \in {"cmiStartCalibration", "cmiEndCalibration"}
    /\ calibration_active => UNCHANGED submitted

\* C19: from a start-calibration event of the matching device version up
\* to the next such end-calibration event the flag is set and no registered
\* callback is invoked for any measurement event; an event of a wrong
\* device version changes nothing, the calibration flag included.
C19_CalibrationGates == [][C19_Step]_vars

\* C19 witness: calibration is active after a measurement was handed over
\* that still waits in the ready queue.
C19_Witness ==
    /\ calibration_active
    /\ ready # <<>>
    /\ SumLen(submitted, Kinds) >= 2

C20_Step ==
    /\ \A c \in channels :
          FlushStep(c) =>
              /\ lastOp'.op = "push" /\ lastOp'.exc = ""
              /\ points'[c] = <<>>
              /\ IF Len(queue) >= QueueMaxSize
                 THEN /\ queue' = queue
                      /\ \E i \in DOMAIN log' : log'[i][1] = "warning_queue_full"
                 ELSE queue' = Append(queue, [field |-> ChannelName(c),
                                              stats |-> Stats(Last(bins'[c]))])
    /\ queue' # queue =>
          \/ \E c \in channels : FlushStep(c)
          \/ queue # <<>> /\ queue' = Tail(queue)

\* C20: the exporter's push never blocks the event loop: the queue of
\* pending updates never holds more than 100 entries; a bin pushed while
\* the queue is full is dropped with a warning and the push completes,
\* leaving the queued entries as they are; otherwise the entry joins the
\* end of the queue, and entries leave only from the front.
C20_QueueBoundedDropOnFull ==
    /\ [](Len(queue) <= QueueMaxSize)
    /\ [][C20_Step]_vars

\* C20 witness: a push finished a bin while the queue was full: the warning
\* was logged and the queue still holds 100 entries.
C20_Witness ==
    /\ exporter
    /\ CountFlush
    /\ HasLog("warning_queue_full")
    /\ Len(queue) = QueueMaxSize

C21_Step ==
    /\ result_callbacks' # result_callbacks =>
          /\ callbacks_lock = {"user"}
          /\ driver.pc # "iterate"
    /\ driver'.called # driver.called /\ driver'.pc = "iterate" =>
          callbacks_lock = {"driver"}

\* C21: the callback list is modified and iterated only under the
\* callbacks lock: at most one thread holds the lock, the list does not
\* change while _callback_ex iterates it, and the callbacks invoked for an
\* event are exactly those in the list when its dispatch began, each once
\* and in list order.
C21_CallbacksLockProtectsList ==
    /\ [](/\ Cardinality(callbacks_lock) <= 1
          /\ driver.pc = "iterate" =>
                /\ callbacks_lock = {"driver"}
                /\ result_callbacks = driver.at_begin
                /\ driver.called = SubSeq(driver.at_begin, 1, driver.i - 1)
          /\ driver.pc = "idle" => driver.called = driver.at_begin
          /\ user.pc = "locked" => callbacks_lock = {"user"})
    /\ [][C21_Step]_vars

\* C21 witness: a client thread waits at the lock to change the list while
\* the driver thread is in the middle of iterating a list of two callbacks,
\* the second of which the client added earlier.
C21_Witness ==
    /\ driver.pc = "iterate"
    /\ driver.i = 2
    /\ driver.at_begin = <<"bridge", "cb2">>
    /\ user.pc = "acquire"
    /\ user.op = "remove"
====
